---- MODULE Spec2Model ----
(***************************************************************************)
(* Model of docker-compose-runner (src/src/lib.rs) driven by a test in the *)
(* style of src/tests/test.rs: a loop of                                   *)
(*     let _h = DockerCompose::new(..); <body>;  drop(_h)                  *)
(* The docker runtime is the environment: per service a container status   *)
(* and a log, of which only the number of readiness-pattern occurrences is  *)
(* kept.  Every run_command call is one step of the test thread, so that    *)
(* log growth, container crashes and the passing of time interleave with    *)
(* the reads of a poll round.                                               *)
(***************************************************************************)
EXTENDS Integers, Sequences, FiniteSets, TLC

\* ---------------------------------------------------------------- bounds
MaxLog == 2        \* readiness-pattern occurrences a log can hold
MaxElapsed == 3    \* ticks of Instant::elapsed() that are told apart
MaxCalls == 3      \* calls the test makes: new, stop/kill/start_service
MaxFaults == 1     \* failing commands and failing containers in one run

\* ------------------------------------------------------- inputs of a run
ServiceNames == {"a", "b"}

FailStates == <<"exited", "dead", "removing">>

FailStateSet == {FailStates[i] : i \in 1..Len(FailStates)}

\* image_waiters: name and timeout (in ticks) of every catalog entry; the
\* regex is the readiness pattern whose occurrences the logs count.
IMAGE_WAITERS ==
    << [name |-> "x", timeout |-> 1], [name |-> "y", timeout |-> 2] >>

\* The docker-compose.yaml files tried: service -> image (among them a
\* `services` mapping without entries), or a file without the `services`
\* key.  Image "z" has no catalog entry.
Manifests ==
    { [shape |-> "ok", images |-> ("a" :> "x" @@ "b" :> "y")],
      [shape |-> "ok", images |-> <<>>],
      [shape |-> "ok", images |-> ("a" :> "y")],
      [shape |-> "ok", images |-> ("a" :> "x" @@ "b" :> "z")],
      [shape |-> "ok", images |-> ("a" :> "z" @@ "b" :> "z")],
      [shape |-> "no_services", images |-> <<>>] }

VARIABLES
    manifest,            \* the yaml file at yaml_path
    psStatus,            \* does `ps --help` of this runtime mention --status
    container,           \* runtime: status of each service's container
    log,                 \* runtime: readiness occurrences in each service's log
    pc,                  \* position of the test thread
    handle,              \* "none" | "live" | "dropping" | "dropped"
    service_to_image,    \* the HashMap of new, as its iteration order
    services,            \* DockerCompose.services: Vec<Service>
    waiting,             \* wait_for_logs' `services` argument (indices)
    idx,                 \* position of a loop over `waiting` / FailStates
    can_use_status_flag, \* wait_for_logs local
    elapsed,             \* instant.elapsed() of the running wait
    all_logs,            \* wait_for_logs local
    results,             \* wait_for_logs local: the Found/Missing report
    panic,               \* the panic that is propagating, or NoPanic
    printed,             \* number of "ERROR: ... while already panicking" lines
    trace,               \* this iteration's steps of new and commands of clean_up
    polled,              \* was a logs/ps command issued in this iteration
    failures,            \* commands that failed so far
    crashes,             \* containers that crashed so far
    ops,                 \* calls of new and of the lifecycle surface so far
    cycle,               \* iteration of the test loop
    cleanups,            \* clean_up calls made by this handle's drop
    startsOk,            \* per service: start_service calls that returned
    stopped,             \* services taken down by stop_service / kill_service
    logAtStart,          \* log count when `start` restarted a stopped service, else -1
    late                 \* services whose awaited occurrence came after own timeout

vars == << manifest, psStatus, container, log, pc, handle, service_to_image,
           services, waiting, idx, can_use_status_flag, elapsed, all_logs,
           results, panic, printed, trace, polled, failures, crashes, ops,
           cycle, cleanups, startsOk, stopped, logAtStart, late >>

envVars == << manifest, psStatus >>

\* The locals of wait_for_logs and of its callers, and what is noted of the
\* running wait.
localVars == << waiting, idx, can_use_status_flag, elapsed, all_logs, results,
               logAtStart, late >>

NoPanic == [kind |-> "none"]

ZeroCount == [s \in ServiceNames |-> 0]

Range(f) == {f[i] : i \in DOMAIN f}

\* All iteration orders a HashMap over the keys S can have.
Orders(S) ==
    {o \in [1..Cardinality(S) -> S] : \A i, j \in 1..Cardinality(S) : o[i] = o[j] => i = j}

Event(ev, arg, ok) == [ev |-> ev, arg |-> arg, ok |-> ok]

\* std::thread::panicking()
Panicking == panic # NoPanic

Init ==
    /\ manifest \in Manifests
    /\ psStatus \in BOOLEAN
    /\ \E stale \in SUBSET (DOMAIN manifest.images) :
          container = [s \in ServiceNames |-> IF s \in stale THEN "running" ELSE "absent"]
    /\ log = ZeroCount
    /\ pc = "new_probe"
    /\ handle = "none"
    /\ service_to_image = <<>>
    /\ services = <<>>
    /\ waiting = <<>>
    /\ idx = 0
    /\ can_use_status_flag = FALSE
    /\ elapsed = 0
    /\ all_logs = ZeroCount
    /\ results = <<>>
    /\ panic = NoPanic
    /\ printed = 0
    /\ trace = <<>>
    /\ polled = FALSE
    /\ failures = 0
    /\ crashes = 0
    /\ ops = 1
    /\ cycle = 1
    /\ cleanups = 0
    /\ startsOk = ZeroCount
    /\ stopped = {}
    /\ logAtStart = -1
    /\ late = {}

\* ------------------------------------------------------------ the runtime
\* `docker compose kill`: every running container is killed and then exited.
KillAll(c) == [s \in ServiceNames |-> IF c[s] = "running" THEN "exited" ELSE c[s]]

\* `docker compose down -v`: every container is removed, and its log with it.
DownAll(c) == [s \in ServiceNames |-> "absent"]

\* `docker compose up -d`: a container per service of the manifest, running.
UpAll(c) == [s \in ServiceNames |-> IF s \in DOMAIN manifest.images THEN "running" ELSE c[s]]

\* `stop <service>` / `kill <service>`: the container ends in state exited.
StopOne(c, s) == [c EXCEPT ![s] = IF @ = "running" THEN "exited" ELSE @]

\* `start <service>`: an exited container runs again and keeps its log.
StartOne(c, s) == [c EXCEPT ![s] = IF @ = "exited" THEN "running" ELSE @]

\* Mutant of NewlineCount: the heading line is not counted.
NewlineCountNoHeading(listing) == Cardinality(listing)

\* The output of `ps --status <status>`: the table heading, then one line
\* per container with that status.
PsListing(status) == {s \in ServiceNames : container[s] = status}

\* containers.matches('\n').count()
NewlineCount(listing) == 1 + Cardinality(listing)

\* log_to_wait_for.find_iter(&log).count()  and  log_to_wait_for.is_match(&log)
PatternCount(l) == l

IsMatch(l) == PatternCount(l) >= 1

\* ----------------------------------------------------- panics and unwinding
\* Unwinding pops the frames of wait_for_logs and of its caller.
ResetLocals ==
    /\ waiting' = <<>>
    /\ idx' = 0
    /\ can_use_status_flag' = FALSE
    /\ elapsed' = 0
    /\ all_logs' = ZeroCount
    /\ results' = <<>>
    /\ logAtStart' = -1
    /\ late' = {}

\* Mutant of Raise: a drop that skips clean_up when the thread is panicking.
RaiseSkipsCleanUp(p) ==
    /\ panic' = p
    /\ ResetLocals
    /\ handle' = IF handle \in {"live", "dropping"} THEN "dropped" ELSE handle
    /\ cleanups' = cleanups
    /\ pc' = "failed"

\* A panic starts to propagate.  Unwinding drops a live handle, whose Drop
\* then calls clean_up with thread::panicking() true; a panic out of new or
\* out of drop itself finds no handle left to drop.
Raise(p) ==
    /\ panic' = p
    /\ ResetLocals
    /\ IF handle = "live"
       THEN /\ handle' = "dropping"
            /\ cleanups' = cleanups + 1
            /\ pc' = "cu_kill"
       ELSE /\ handle' = IF handle = "dropping" THEN "dropped" ELSE handle
            /\ cleanups' = cleanups
            /\ pc' = "failed"

\* What a step that raises nothing leaves alone.
NoRaise == UNCHANGED << panic, handle, cleanups >>

\* run_command(..) returned Err and the caller unwraps it.
CommandFailed(cmd) == [kind |-> "command_failed", cmd |-> cmd]

\* A command may exit non-zero while the budget of faults lasts.
Outcome(ok) ==
    /\ ok \in BOOLEAN
    /\ ~ok => failures + crashes < MaxFaults
    /\ failures' = IF ok THEN failures ELSE failures + 1

\* ------------------------------------------------------ DockerCompose::new
\* lines 61-73: `docker compose` itself must run and succeed.
NewProbe ==
    /\ pc = "new_probe"
    /\ \E out \in {"ok", "not_found", "error", "bad_status"} :
          /\ Outcome(out = "ok")
          /\ trace' = Append(trace, Event("probe", "", out = "ok"))
          /\ IF out = "ok"
             THEN /\ pc' = "cu_kill"
                  /\ NoRaise
                  /\ UNCHANGED localVars
             ELSE Raise([kind |-> out])
    /\ UNCHANGED << envVars, stopped, container, log, service_to_image, services, printed,
                    polled, crashes, ops, cycle, startsOk >>

\* Mutant of DropOnErr: the error is unwrapped also while panicking.
DropOnErrUnwraps(cmd) ==
    /\ panic' = CommandFailed(cmd)
    /\ ResetLocals
    /\ handle' = "dropped"
    /\ pc' = "failed"
    /\ UNCHANGED << cleanups, printed >>

\* Drop::drop with clean_up's Err (lines 314-324): unwrapped, unless the
\* thread is panicking, and then only printed.
DropOnErr(cmd) ==
    IF Panicking
    THEN /\ printed' = printed + 1
         /\ pc' = "failed"
         /\ handle' = "dropped"
         /\ UNCHANGED << panic, cleanups, localVars >>
    ELSE /\ Raise(CommandFailed(cmd))
         /\ UNCHANGED printed

\* clean_up returns Err to new (line 77, unwrapped) or to drop.
CleanUpErr(cmd) ==
    IF handle = "dropping"
    THEN DropOnErr(cmd)
    ELSE /\ Raise(CommandFailed(cmd))
         /\ UNCHANGED printed

\* Mutant of CleanUpOk: new goes on to the callback without reading the yaml.
CleanUpOkSkipsParse ==
    /\ UNCHANGED << panic, printed, cleanups, localVars >>
    /\ IF handle = "dropping"
       THEN /\ handle' = "dropped"
            /\ pc' = IF Panicking THEN "failed" ELSE "scope_end"
       ELSE /\ handle' = handle
            /\ pc' = "new_build"

\* clean_up returns Ok(()) to new, which goes on, or to drop, which ends.
CleanUpOk ==
    /\ UNCHANGED << panic, printed, cleanups, localVars >>
    /\ IF handle = "dropping"
       THEN /\ handle' = "dropped"
            /\ pc' = IF Panicking THEN "failed" ELSE "scope_end"
       ELSE /\ handle' = handle
            /\ pc' = "new_parse"

\* clean_up, line 280: `kill`; its error is returned at once by `?`.
CleanUpKill ==
    /\ pc = "cu_kill"
    /\ \E ok \in BOOLEAN :
          /\ Outcome(ok)
          /\ trace' = Append(trace, Event("kill", "", ok))
          /\ IF ok
             THEN /\ container' = KillAll(container)
                  /\ pc' = "cu_down"
                  /\ NoRaise
                  /\ UNCHANGED << printed, localVars >>
             ELSE /\ CleanUpErr("kill")
                  /\ UNCHANGED container
    /\ UNCHANGED << envVars, stopped, log, service_to_image, services, polled, crashes,
                    ops, cycle, startsOk >>

\* clean_up, lines 281-283: `down -v`, then Ok(()).
CleanUpDown ==
    /\ pc = "cu_down"
    /\ \E ok \in BOOLEAN :
          /\ Outcome(ok)
          /\ trace' = Append(trace, Event("down", "", ok))
          /\ IF ok
             THEN /\ container' = DownAll(container)
                  /\ log' = ZeroCount
                  /\ CleanUpOk
             ELSE /\ CleanUpErr("down -v")
                  /\ UNCHANGED << container, log >>
    /\ UNCHANGED << envVars, stopped, service_to_image, services, polled, crashes, ops,
                    cycle, startsOk >>

\* Mutant of GetServiceToImage: a yaml without `services` reads as no service.
GetServiceToImageAnyShape ==
    /\ pc = "new_parse"
    /\ \E o \in Orders(DOMAIN manifest.images) :
          service_to_image' =
              [i \in DOMAIN o |-> [service |-> o[i], image |-> manifest.images[o[i]]]]
    /\ trace' = Append(trace, Event("parse", "", TRUE))
    /\ pc' = "new_build"
    /\ NoRaise
    /\ UNCHANGED localVars
    /\ UNCHANGED << envVars, stopped, container, log, services, printed, polled, failures,
                    crashes, ops, cycle, startsOk >>

\* get_service_to_image: the yaml must have the expected shape; the result is
\* a HashMap, kept here as the order in which it will be iterated.
GetServiceToImage ==
    /\ pc = "new_parse"
    /\ IF manifest.shape = "ok"
       THEN /\ \E o \in Orders(DOMAIN manifest.images) :
                  service_to_image' =
                      [i \in DOMAIN o |-> [service |-> o[i], image |-> manifest.images[o[i]]]]
            /\ trace' = Append(trace, Event("parse", "", TRUE))
            /\ pc' = "new_build"
            /\ NoRaise
            /\ UNCHANGED localVars
       ELSE /\ Raise([kind |-> "parse"])
            /\ trace' = Append(trace, Event("parse", "", FALSE))
            /\ UNCHANGED service_to_image
    /\ UNCHANGED << envVars, stopped, container, log, services, printed, polled, failures,
                    crashes, ops, cycle, startsOk >>

\* lines 81-82: the callback gets the map's values, one per service.
BuilderImages(s2i) == [i \in DOMAIN s2i |-> s2i[i].image]

ImageBuilder ==
    /\ pc = "new_build"
    /\ trace' = Append(trace, Event("build", BuilderImages(service_to_image), TRUE))
    /\ pc' = "new_up"
    /\ UNCHANGED << envVars, stopped, container, log, handle, service_to_image, services,
                    localVars, panic, printed, polled, failures, crashes, ops,
                    cycle, cleanups, startsOk, logAtStart, late >>

\* line 84: `up -d`, unwrapped.
Up ==
    /\ pc = "new_up"
    /\ \E ok \in BOOLEAN :
          /\ Outcome(ok)
          /\ trace' = Append(trace, Event("up", "", ok))
          /\ IF ok
             THEN /\ container' = UpAll(container)
                  /\ pc' = "new_services"
                  /\ NoRaise
                  /\ UNCHANGED localVars
             ELSE /\ Raise(CommandFailed("up"))
                  /\ UNCHANGED container
    /\ UNCHANGED << envVars, stopped, log, service_to_image, services, printed, polled,
                    crashes, ops, cycle, startsOk >>

\* image_waiters.iter().find(|image| image.name == image_name)
FindImage(image_name) ==
    LET hits == {i \in DOMAIN IMAGE_WAITERS : IMAGE_WAITERS[i].name = image_name}
    IN  IF hits = {} THEN 0 ELSE CHOOSE i \in hits : \A j \in hits : i <= j

\* Service::new
ServiceNew(name, image) ==
    [name |-> name, logs_seen |-> 0, timeout |-> image.timeout]

\* get_services: one Service per map entry; a missing catalog entry panics.
\* On success new passes every service to wait_for_logs (lines 86-88).
GetServices ==
    /\ pc = "new_services"
    /\ IF \A i \in DOMAIN service_to_image : FindImage(service_to_image[i].image) # 0
       THEN /\ services' =
                  [i \in DOMAIN service_to_image |->
                      ServiceNew(service_to_image[i].service,
                                 IMAGE_WAITERS[FindImage(service_to_image[i].image)])]
            /\ waiting' = [i \in DOMAIN service_to_image |-> i]
            /\ trace' = Append(trace, Event("services", "", TRUE))
            /\ pc' = "w_help"
            /\ NoRaise
            /\ UNCHANGED << idx, can_use_status_flag, elapsed, all_logs, results,
                            logAtStart, late >>
       ELSE /\ Raise([kind |-> "missing_image"])
            /\ trace' = Append(trace, Event("services", "", FALSE))
            /\ UNCHANGED services
    /\ UNCHANGED << envVars, stopped, container, log, service_to_image, printed, polled,
                    failures, crashes, ops, cycle, startsOk >>

\* ------------------------------------------------------- wait_for_logs
Max(S) == CHOOSE x \in S : \A y \in S : y <= x

\* Mutant of WaitTimeout: the timeout of the first service waited for.
WaitTimeoutOfFirst == services[waiting[1]].timeout

\* lines 182-186: the largest timeout among the services waited for.
WaitTimeout == Max({services[waiting[i]].timeout : i \in DOMAIN waiting})

WaitingNames == {services[waiting[i]].name : i \in DOMAIN waiting}

ServiceOf(name) == CHOOSE i \in DOMAIN services : services[i].name = name

WaitPcs == {"w_logs", "w_all_logs", "w_ps", "w_elapsed"}

\* lines 182-194: the timeout (the unwrap of line 186 panics when there is
\* no service), the probe of `ps --help` for --status, then the Instant.
WaitHelp ==
    /\ pc = "w_help"
    /\ IF waiting = <<>>
       THEN /\ Raise([kind |-> "no_service"])
            /\ UNCHANGED << failures, polled >>
       ELSE \E ok \in BOOLEAN :
               /\ Outcome(ok)
               /\ polled' = TRUE
               /\ IF ok
                  THEN /\ can_use_status_flag' = psStatus
                       /\ elapsed' = 0
                       /\ idx' = 1
                       /\ pc' = "w_logs"
                       /\ NoRaise
                       /\ UNCHANGED << waiting, all_logs, results, logAtStart >>
                       /\ late' = {}
                  ELSE Raise(CommandFailed("ps --help"))
    /\ UNCHANGED << envVars, stopped, container, log, service_to_image, services,
                    printed, trace, crashes, ops, cycle, startsOk >>

\* Mutant of MarkSeen: the vector is rebuilt, the services not waited for
\* as Service::new makes them.
MarkSeenRebuilt(svcs, w) ==
    [i \in DOMAIN svcs |->
        IF i \in Range(w) THEN [svcs[i] EXCEPT !.logs_seen = @ + 1]
                          ELSE [svcs[i] EXCEPT !.logs_seen = 0]]

\* Mutant of MarkSeen: only the first service waited for is marked.
MarkSeenFirstOnly(svcs, w) ==
    [i \in DOMAIN svcs |->
        IF i = w[1] THEN [svcs[i] EXCEPT !.logs_seen = @ + 1] ELSE svcs[i]]

\* Mutant of MarkSeen: every service of the handle is marked.
MarkSeenAll(svcs, w) ==
    [i \in DOMAIN svcs |-> [svcs[i] EXCEPT !.logs_seen = @ + 1]]

\* lines 205-207: every service waited for has one more occurrence consumed.
MarkSeen(svcs, w) ==
    [i \in DOMAIN svcs |->
        IF i \in Range(w) THEN [svcs[i] EXCEPT !.logs_seen = @ + 1] ELSE svcs[i]]

\* Mutant of WaitLogs: a service counts as ready when its pattern count has
\* reached logs_seen.
WaitLogsNotStrict ==
    /\ pc = "w_logs"
    /\ LET service == services[waiting[idx]] IN
       \E ok \in BOOLEAN :
          /\ Outcome(ok)
          /\ IF ~ok
             THEN /\ Raise(CommandFailed("logs"))
                  /\ UNCHANGED services
             ELSE /\ NoRaise
                  /\ UNCHANGED << waiting, can_use_status_flag, elapsed, all_logs,
                                  results, logAtStart, late >>
                  /\ IF PatternCount(log[service.name]) >= service.logs_seen
                     THEN IF idx = Len(waiting)
                          THEN /\ services' = MarkSeen(services, waiting)
                               /\ pc' = "w_return"
                               /\ UNCHANGED idx
                          ELSE /\ idx' = idx + 1
                               /\ UNCHANGED << services, pc >>
                     ELSE /\ pc' = "w_all_logs"
                          /\ UNCHANGED << services, idx >>
    /\ UNCHANGED << envVars, stopped, container, log, service_to_image, printed, trace,
                    polled, crashes, ops, cycle, startsOk >>

\* Mutant of WaitLogs: a round that is ready after the timeout does not
\* return but goes on to the failure checks.
WaitLogsChecksDeadline ==
    /\ pc = "w_logs"
    /\ LET service == services[waiting[idx]] IN
       \E ok \in BOOLEAN :
          /\ Outcome(ok)
          /\ IF ~ok
             THEN /\ Raise(CommandFailed("logs"))
                  /\ UNCHANGED services
             ELSE /\ NoRaise
                  /\ UNCHANGED << waiting, can_use_status_flag, elapsed, all_logs,
                                  results, logAtStart, late >>
                  /\ IF PatternCount(log[service.name]) > service.logs_seen
                     THEN IF idx = Len(waiting)
                          THEN IF elapsed > WaitTimeout
                               THEN /\ pc' = "w_all_logs"
                                    /\ UNCHANGED << services, idx >>
                               ELSE /\ services' = MarkSeen(services, waiting)
                                    /\ pc' = "w_return"
                                    /\ UNCHANGED idx
                          ELSE /\ idx' = idx + 1
                               /\ UNCHANGED << services, pc >>
                     ELSE /\ pc' = "w_all_logs"
                          /\ UNCHANGED << services, idx >>
    /\ UNCHANGED << envVars, stopped, container, log, service_to_image, printed, trace,
                    polled, crashes, ops, cycle, startsOk >>

\* lines 197-207: one read of the `all` over the services, in order and
\* short-circuiting; the last read, if ready too, marks every service.
WaitLogs ==
    /\ pc = "w_logs"
    /\ LET service == services[waiting[idx]] IN
       \E ok \in BOOLEAN :
          /\ Outcome(ok)
          /\ IF ~ok
             THEN /\ Raise(CommandFailed("logs"))
                  /\ UNCHANGED services
             ELSE /\ NoRaise
                  /\ UNCHANGED << waiting, can_use_status_flag, elapsed, all_logs,
                                  results, logAtStart, late >>
                  /\ IF PatternCount(log[service.name]) > service.logs_seen
                     THEN IF idx = Len(waiting)
                          THEN /\ services' = MarkSeen(services, waiting)
                               /\ pc' = "w_return"
                               /\ UNCHANGED idx
                          ELSE /\ idx' = idx + 1
                               /\ UNCHANGED << services, pc >>
                     ELSE /\ pc' = "w_all_logs"
                          /\ UNCHANGED << services, idx >>
    /\ UNCHANGED << envVars, stopped, container, log, service_to_image, printed, trace,
                    polled, crashes, ops, cycle, startsOk >>

\* lines 208-210: wait_for_logs returns: to new, which builds the handle
\* (lines 90-93), or to start_service, which returns to the test body.
WaitReturn ==
    /\ pc = "w_return"
    /\ pc' = "live"
    /\ handle' = "live"
    /\ IF handle = "none"
       THEN /\ trace' = Append(trace, Event("return", "", TRUE))
            /\ UNCHANGED startsOk
       ELSE /\ startsOk' = [s \in ServiceNames |->
                               IF s \in WaitingNames THEN startsOk[s] + 1 ELSE startsOk[s]]
            /\ UNCHANGED trace
    /\ ResetLocals
    /\ late' = {}
    /\ UNCHANGED << envVars, stopped, container, log, service_to_image, services, panic,
                    printed, polled, failures, crashes, ops, cycle, cleanups >>

\* line 213: the logs of the whole environment, for the messages.
WaitAllLogs ==
    /\ pc = "w_all_logs"
    /\ \E ok \in BOOLEAN :
          /\ Outcome(ok)
          /\ IF ok
             THEN /\ all_logs' = log
                  /\ pc' = IF can_use_status_flag THEN "w_ps" ELSE "w_elapsed"
                  /\ idx' = 1
                  /\ NoRaise
                  /\ UNCHANGED << waiting, can_use_status_flag, elapsed, results,
                                  logAtStart, late >>
             ELSE Raise(CommandFailed("logs"))
    /\ UNCHANGED << envVars, stopped, container, log, service_to_image, services, printed,
                    trace, polled, crashes, ops, cycle, startsOk >>

\* The panic of assert_no_containers_in_service_with_status (lines 267-269):
\* the listing and the full log; `early` notes that the timeout had not
\* expired when it was raised.
ContainerFailed(status, containers, full_log) ==
    [kind |-> "container_failed", status |-> status, containers |-> containers,
     full_log |-> full_log, early |-> elapsed <= WaitTimeout]

\* assert_no_containers_in_service_with_status, called for exited, dead and
\* removing in turn (lines 217-227).
AssertNoContainersInServiceWithStatus ==
    /\ pc = "w_ps"
    /\ LET status == FailStates[idx]
           containers == PsListing(status) IN
       \E ok \in BOOLEAN :
          /\ Outcome(ok)
          /\ IF ~ok
             THEN Raise(CommandFailed("ps --status"))
             ELSE IF NewlineCount(containers) > 1
                  THEN Raise(ContainerFailed(status, containers, all_logs))
                  ELSE /\ IF idx < Len(FailStates)
                          THEN /\ idx' = idx + 1
                               /\ pc' = pc
                          ELSE /\ idx' = 1
                               /\ pc' = "w_elapsed"
                       /\ NoRaise
                       /\ UNCHANGED << waiting, can_use_status_flag, elapsed,
                                       all_logs, results, logAtStart, late >>
    /\ UNCHANGED << envVars, stopped, container, log, service_to_image, services, printed,
                    trace, polled, crashes, ops, cycle, startsOk >>

\* Mutant of WaitElapsed: the elapsed time is never looked at.
WaitElapsedNeverExpires ==
    /\ pc = "w_elapsed"
    /\ pc' = "w_logs"
    /\ all_logs' = ZeroCount
    /\ idx' = 1
    /\ UNCHANGED << envVars, stopped, container, log, handle, service_to_image, services,
                    waiting, can_use_status_flag, elapsed, results, panic, printed,
                    trace, polled, failures, crashes, ops, cycle, cleanups,
                    startsOk, logAtStart, late >>

\* Mutant of WaitElapsed: the wait gives up as soon as the timeout is reached.
WaitElapsedNotStrict ==
    /\ pc = "w_elapsed"
    /\ IF elapsed >= WaitTimeout
       THEN /\ pc' = "w_report"
            /\ UNCHANGED all_logs
       ELSE /\ pc' = "w_logs"
            /\ all_logs' = ZeroCount
    /\ idx' = 1
    /\ UNCHANGED << envVars, stopped, container, log, handle, service_to_image, services,
                    waiting, can_use_status_flag, elapsed, results, panic, printed,
                    trace, polled, failures, crashes, ops, cycle, cleanups,
                    startsOk, logAtStart, late >>

\* line 230: out of time, or round again; the round's all_logs ends with it.
WaitElapsed ==
    /\ pc = "w_elapsed"
    /\ IF elapsed > WaitTimeout
       THEN /\ pc' = "w_report"
            /\ UNCHANGED all_logs
       ELSE /\ pc' = "w_logs"
            /\ all_logs' = ZeroCount
    /\ idx' = 1
    /\ UNCHANGED << envVars, stopped, container, log, handle, service_to_image, services,
                    waiting, can_use_status_flag, elapsed, results, panic, printed,
                    trace, polled, failures, crashes, ops, cycle, cleanups,
                    startsOk, logAtStart, late >>

\* The timeout panic of lines 252-254.
TimerExpired(report, logs) ==
    [kind |-> "timeout", timeout |-> WaitTimeout, results |-> report,
     all_logs |-> logs]

\* lines 232-254: one line of the report per service, Found or Missing, and
\* after the last one the panic.
WaitReport ==
    /\ pc = "w_report"
    /\ LET service == services[waiting[idx]] IN
       \E ok \in BOOLEAN :
          /\ Outcome(ok)
          /\ IF ~ok
             THEN Raise(CommandFailed("logs"))
             ELSE LET line == [service |-> service.name,
                               found |-> IF IsMatch(log[service.name])
                                         THEN "Found" ELSE "Missing"] IN
                  IF idx = Len(waiting)
                  THEN Raise(TimerExpired(Append(results, line), all_logs))
                  ELSE /\ results' = Append(results, line)
                       /\ idx' = idx + 1
                       /\ NoRaise
                       /\ UNCHANGED << pc, waiting, can_use_status_flag, elapsed,
                                       all_logs, logAtStart, late >>
    /\ UNCHANGED << envVars, stopped, container, log, service_to_image, services, printed,
                    trace, polled, crashes, ops, cycle, startsOk >>

\* ------------------------------------------------- the lifecycle surface
ServiceNamesOfHandle == {services[i].name : i \in DOMAIN services}

\* stop_service (lines 97-103)
StopService(s) ==
    /\ pc = "live"
    /\ ops < MaxCalls
    /\ \E ok \in BOOLEAN :
          /\ Outcome(ok)
          /\ IF ok
             THEN /\ container' = StopOne(container, s)
                  /\ stopped' = stopped \cup {s}
                  /\ NoRaise
                  /\ UNCHANGED << pc, localVars >>
             ELSE /\ Raise(CommandFailed("stop <service>"))
                  /\ UNCHANGED << container, stopped >>
    /\ ops' = ops + 1
    /\ UNCHANGED << envVars, log, service_to_image, services, printed, trace,
                    polled, crashes, cycle, startsOk >>

\* kill_service (lines 106-112)
KillService(s) ==
    /\ pc = "live"
    /\ ops < MaxCalls
    /\ \E ok \in BOOLEAN :
          /\ Outcome(ok)
          /\ IF ok
             THEN /\ container' = StopOne(container, s)
                  /\ stopped' = stopped \cup {s}
                  /\ NoRaise
                  /\ UNCHANGED << pc, localVars >>
             ELSE /\ Raise(CommandFailed("kill <service>"))
                  /\ UNCHANGED << container, stopped >>
    /\ ops' = ops + 1
    /\ UNCHANGED << envVars, log, service_to_image, services, printed, trace,
                    polled, crashes, cycle, startsOk >>

\* start_service (lines 115-128): `start`, then the wait for that service.
StartService(s) ==
    /\ pc = "live"
    /\ ops < MaxCalls
    /\ \E ok \in BOOLEAN :
          /\ Outcome(ok)
          /\ IF ok
             THEN /\ container' = StartOne(container, s)
                  /\ logAtStart' = IF s \in stopped THEN log[s] ELSE -1
                  /\ stopped' = stopped \ {s}
                  /\ waiting' = << ServiceOf(s) >>
                  /\ pc' = "w_help"
                  /\ NoRaise
                  /\ UNCHANGED << idx, can_use_status_flag, elapsed, all_logs,
                                  results, late >>
             ELSE /\ Raise(CommandFailed("start <service>"))
                  /\ UNCHANGED << container, stopped >>
    /\ ops' = ops + 1
    /\ UNCHANGED << envVars, log, service_to_image, services, printed, trace,
                    polled, crashes, cycle, startsOk >>

\* The test body fails (an assert, an unwrap) while it holds the handle.
BodyPanic ==
    /\ pc = "live"
    /\ Raise([kind |-> "test_body"])
    /\ UNCHANGED << envVars, stopped, container, log, service_to_image, services, printed,
                    trace, polled, failures, crashes, ops, cycle, startsOk >>

\* Drop::drop at the end of the handle's scope (lines 313-325): clean_up.
Drop ==
    /\ pc = "live"
    /\ handle' = "dropping"
    /\ cleanups' = cleanups + 1
    /\ pc' = "cu_kill"
    /\ UNCHANGED << envVars, stopped, container, log, service_to_image, services,
                    localVars, panic, printed, trace, polled, failures, crashes,
                    ops, cycle, startsOk, logAtStart, late >>

\* The next iteration of the test's loop (src/tests/test.rs, line 8).
NextIteration ==
    /\ pc = "scope_end"
    /\ ops < MaxCalls
    /\ ops' = ops + 1
    /\ cycle' = cycle + 1
    /\ pc' = "new_probe"
    /\ handle' = "none"
    /\ service_to_image' = <<>>
    /\ services' = <<>>
    /\ trace' = <<>>
    /\ polled' = FALSE
    /\ cleanups' = 0
    /\ startsOk' = ZeroCount
    /\ stopped' = {}
    /\ UNCHANGED << envVars, container, log, localVars, panic, printed, failures,
                    crashes >>

\* -------------------------------------------------------- the environment
LogsSeenOf(s) == services[ServiceOf(s)].logs_seen

TimeoutOf(s) == services[ServiceOf(s)].timeout

\* A running container writes one more line that matches its pattern.  The
\* step is taken where the log is read next: before a `logs` command of
\* wait_for_logs, or while the test body runs.
LogEmit(s) ==
    /\ pc \in {"w_logs", "w_all_logs", "w_report", "live"}
    /\ container[s] = "running"
    /\ log[s] < MaxLog
    /\ log' = [log EXCEPT ![s] = @ + 1]
    /\ late' = IF /\ pc \in WaitPcs \cup {"w_report"}
                  /\ s \in WaitingNames
                  /\ log[s] = LogsSeenOf(s)
                  /\ elapsed > TimeoutOf(s)
               THEN late \cup {s}
               ELSE late
    /\ UNCHANGED << envVars, stopped, container, pc, handle, service_to_image, services,
                    waiting, idx, can_use_status_flag, elapsed, all_logs, results,
                    logAtStart, panic, printed, trace, polled, failures, crashes,
                    ops, cycle, cleanups, startsOk >>

\* A running container fails on its own.  The step is taken where it can be
\* seen next: before a `logs` or a `ps --status` command of wait_for_logs.
Crash(s, status) ==
    /\ pc \in {"w_logs", "w_ps"}
    /\ container[s] = "running"
    /\ failures + crashes < MaxFaults
    /\ crashes' = crashes + 1
    /\ container' = [container EXCEPT ![s] = status]
    /\ UNCHANGED << envVars, stopped, log, pc, handle, service_to_image, services,
                    localVars, panic, printed, trace, polled, failures, ops, cycle,
                    cleanups, startsOk, logAtStart, late >>

\* Time passes while wait_for_logs holds its Instant; the step is taken
\* before a poll round's reads or before line 230 reads the Instant.
Tick ==
    /\ pc \in {"w_logs", "w_elapsed"}
    /\ elapsed < MaxElapsed
    /\ elapsed' = elapsed + 1
    /\ UNCHANGED << envVars, stopped, container, log, pc, handle, service_to_image,
                    services, waiting, idx, can_use_status_flag, all_logs, results,
                    panic, printed, trace, polled, failures, crashes, ops, cycle,
                    cleanups, startsOk, logAtStart, late >>

Next ==
    \/ NewProbe
    \/ CleanUpKill
    \/ CleanUpDown
    \/ GetServiceToImage
    \/ ImageBuilder
    \/ Up
    \/ GetServices
    \/ WaitHelp
    \/ WaitLogs
    \/ WaitReturn
    \/ WaitAllLogs
    \/ AssertNoContainersInServiceWithStatus
    \/ WaitElapsed
    \/ WaitReport
    \/ \E s \in ServiceNamesOfHandle : StopService(s)
    \/ \E s \in ServiceNamesOfHandle : KillService(s)
    \/ \E s \in ServiceNamesOfHandle : StartService(s)
    \/ BodyPanic
    \/ Drop
    \/ NextIteration
    \/ \E s \in ServiceNames : LogEmit(s)
    \/ \E s \in ServiceNames, status \in FailStateSet : Crash(s, status)
    \/ Tick

Spec == Init /\ [][Next]_vars

\* The steps of wait_for_logs itself.
WaitStep ==
    \/ WaitHelp
    \/ WaitLogs
    \/ WaitReturn
    \/ WaitAllLogs
    \/ AssertNoContainersInServiceWithStatus
    \/ WaitElapsed
    \/ WaitReport

\* Every command of a wait returns, so the test thread goes on while it is
\* inside wait_for_logs, and the commands of a poll round take time, so the
\* Instant's elapsed time grows from round to round.
FairSpec == Spec /\ WF_vars(WaitStep) /\ SF_vars(Tick)

\* ================================================================ claims
Ended == pc \in {"failed", "scope_end"}

Issued(ev) == {i \in DOMAIN trace : trace[i].ev = ev}

LastEvent == trace[Len(trace)]

\* The manifest has services, and every image a catalog entry.
AllCovered ==
    /\ manifest.shape = "ok"
    /\ DOMAIN manifest.images # {}
    /\ \A s \in DOMAIN manifest.images : FindImage(manifest.images[s]) # 0

\* C1 (as claimed): once `up -d` has started the containers, `kill` and then
\* `down -v` are issued for the path before the test's execution ends, on
\* every exit path, a panic inside DockerCompose::new after `up -d` included.
C1_TeardownOnEveryExit ==
    Ended =>
        \A i \in Issued("up") :
            trace[i].ok =>
                \E j \in Issued("kill"), k \in Issued("down") : i < j /\ j < k

\* C2: the drop of a handle calls clean_up exactly once, panicking or not,
\* and whenever `up -d` is about to be issued no container of an earlier
\* iteration (or of an earlier run) is present.
C2_TeardownOncePerHandle ==
    /\ cleanups = IF handle \in {"dropping", "dropped"} THEN 1 ELSE 0
    /\ pc = "new_up" => \A s \in ServiceNames : container[s] = "absent"

\* C2 witness: the handle of the second iteration was dropped by a panic,
\* with its one clean_up behind it.
C2_Witness ==
    /\ cycle = 2
    /\ handle = "dropped"
    /\ Panicking
    /\ pc = "failed"
    /\ cleanups = 1
    /\ \E i \in Issued("up") : trace[i].ok

\* C3 (as claimed): a manifest image without catalog entry makes new panic
\* before `up -d` is issued.
C3_MissingImageBeforeUp ==
    panic.kind = "missing_image" => Issued("up") = {}

\* The largest timeout among the services waited for, from their own fields.
MaxOwnTimeout == Max({TimeoutOf(s) : s \in WaitingNames})

\* C4 (as claimed): with a covered manifest and no failing command, new
\* never succeeds when some service first matched after its own timeout, and
\* never runs into the timeout when every service matched within its own.
C4_OwnTimeoutDecides ==
    (handle = "none" /\ AllCovered /\ failures = 0) =>
        /\ pc = "w_return" => late = {}
        /\ pc = "w_report" =>
              \E s \in WaitingNames : log[s] <= LogsSeenOf(s) \/ s \in late

\* C4 (amended): with a covered manifest and no failing command, new
\* succeeds only after a poll round that read every service's log with a
\* pattern occurrence in it, and then every logs_seen is 1; the wait is
\* bounded by the largest of the services' timeouts and not by each
\* service's own: the timeout failure is raised only when the elapsed time
\* exceeds that maximum, and new fails in no other way than by that timeout
\* or by a container found exited, dead or removing.
C4_MaxTimeoutDecides ==
    (handle = "none" /\ AllCovered /\ failures = 0) =>
        /\ pc = "w_return" =>
              \A i \in DOMAIN services :
                  services[i].logs_seen = 1 /\ PatternCount(log[services[i].name]) >= 1
        /\ pc = "w_report" => elapsed > MaxOwnTimeout
        /\ pc = "failed" => panic.kind \in {"timeout", "container_failed"}
        /\ panic.kind = "timeout" => panic.timeout = Max({services[i].timeout : i \in DOMAIN services})

\* C4 witness: new's wait succeeded although a service first matched after
\* its own timeout.
C4_Witness ==
    /\ handle = "none"
    /\ AllCovered
    /\ failures = 0
    /\ pc = "w_return"
    /\ late # {}

\* C5 (as claimed): start_service of a service that stop_service or
\* kill_service took down returns only when the log holds an occurrence
\* emitted after the `start` command.
C5_NewOccurrenceAfterRestart ==
    (pc = "w_return" /\ handle = "live" /\ logAtStart >= 0) =>
        \A s \in WaitingNames : PatternCount(log[s]) > logAtStart

\* C6: no step within one handle's lifetime lowers a logs_seen.
C6_LogsSeenMonotone ==
    [][ (cycle' = cycle /\ DOMAIN services' = DOMAIN services) =>
            \A i \in DOMAIN services : services'[i].logs_seen >= services[i].logs_seen ]_vars

\* C6 witness: a counter that was raised twice, by new and by a restart.
C6_Witness ==
    /\ pc = "live"
    /\ \E i \in DOMAIN services : services[i].logs_seen = 2

\* C7: with can_use_status_flag set, a poll round that is not ready goes on
\* to the status checks, and a status check that runs while a container has
\* that status panics at once, whatever the elapsed time, with a message
\* made of the status listing and the round's full log.
C7_FailFast ==
    [][ /\ (pc = "w_all_logs" /\ pc' # pc /\ failures' = failures /\ can_use_status_flag)
            => pc' = "w_ps"
        /\ (pc = "w_ps" /\ failures' = failures /\ container' = container
               /\ PsListing(FailStates[idx]) # {})
            => /\ panic'.kind = "container_failed"
               /\ panic'.containers = PsListing(FailStates[idx])
               /\ panic'.full_log = all_logs
               /\ pc' \in {"cu_kill", "failed"} ]_vars

\* C7 witness: a fail-fast panic raised before the timeout had expired.
C7_Witness ==
    /\ panic.kind = "container_failed"
    /\ panic.early
    /\ panic.containers # {}
    /\ pc \in {"cu_kill", "failed"}

\* C8 (as claimed): every `kill` of clean_up is followed by `down -v`, also
\* when the `kill` failed, and `down -v` is issued only right after `kill`.
C8_DownAfterEveryKill ==
    /\ \A i \in Issued("kill") :
          IF i < Len(trace) THEN trace[i + 1].ev = "down" ELSE pc = "cu_down"
    /\ \A k \in Issued("down") : k > 1 /\ trace[k - 1].ev = "kill"

\* C9: while a handle is dropped by a panic, no step replaces the panic that
\* propagates, and a failing clean_up command is printed; in a drop without
\* panic a failing clean_up command becomes the panic.
C9_TeardownFailure ==
    [][ /\ (handle = "dropping" /\ Panicking) =>
              /\ panic' = panic
              /\ failures' > failures => (printed' = printed + 1 /\ pc' = "failed")
        /\ (handle = "dropping" /\ ~Panicking /\ failures' > failures) =>
              /\ panic' \in {CommandFailed("kill"), CommandFailed("down -v")}
              /\ printed' = printed
              /\ pc' = "failed" ]_vars

\* C9 witness: the test body panicked, the teardown failed and was printed.
C9_Witness ==
    /\ pc = "failed"
    /\ handle = "dropped"
    /\ panic.kind = "test_body"
    /\ printed = 1
    /\ ~LastEvent.ok

\* C10: of a handle, logs_seen of s is 1 plus the start_service(s) calls
\* that have returned; inside new it is 0 until the wait has succeeded.
C10_LogsSeenCountsStarts ==
    \A i \in DOMAIN services :
        LET s == services[i].name
            marked == IF pc = "w_return" /\ s \in WaitingNames THEN 1 ELSE 0
        IN  services[i].logs_seen =
                IF handle = "none" THEN marked ELSE 1 + startsOk[s] + marked

\* C10 witness: a restarted service at 2 beside another service still at 1.
C10_Witness ==
    /\ pc = "live"
    /\ \E i, j \in DOMAIN services :
          /\ services[i].logs_seen = 2
          /\ startsOk[services[i].name] = 1
          /\ services[j].logs_seen = 1

\* C11 (as claimed): the image-build callback is called at most once per
\* construction, and its argument holds every image name of the manifest
\* exactly once, also when several services share an image.
C11_BuilderGetsDistinctImages ==
    /\ Cardinality(Issued("build")) <= 1
    /\ \A i \in Issued("build") :
          LET images == trace[i].arg IN
          /\ Range(images) = Range(manifest.images)
          /\ \A p, q \in DOMAIN images : images[p] = images[q] => p = q

\* The steps of DockerCompose::new in the order of lines 61-93; the wait of
\* line 88 lies between "services" and "return".
NewOrder ==
    << "probe", "kill", "down", "parse", "build", "up", "services", "return" >>

\* C12: what an iteration has done of new is a prefix of NewOrder in which
\* every step but the last succeeded, and no logs/ps command of the wait is
\* issued before the per-service state was built nor after new returned
\* without one: the handle is returned only after the wait.
C12_ConstructionOrder ==
    /\ \A i \in DOMAIN trace :
          i <= Len(NewOrder) =>
              /\ trace[i].ev = NewOrder[i]
              /\ i < Len(trace) => trace[i].ok
    /\ polled => (Len(trace) >= 7 /\ trace[7].ok)
    /\ (handle = "none" /\ pc \in WaitPcs \cup {"w_help", "w_report", "w_return"})
          => Len(trace) = 7
    /\ handle # "none" <=> (Len(trace) >= 8 /\ polled)

\* C12 witness: new has returned the handle after all eight steps.
C12_Witness ==
    /\ handle = "live"
    /\ pc = "live"
    /\ polled
    /\ [i \in DOMAIN trace |-> trace[i].ev] = NewOrder
    /\ \A i \in DOMAIN trace : trace[i].ok

\* C13: with a yaml that has no `services` key, new gets no further than
\* get_service_to_image: the callback is not called, `up -d` and the
\* logs/ps commands are not issued, no handle is made, and the parse panic
\* comes right after the successful probe, `kill` and `down -v`.
C13_BadShapeFailsEarly ==
    manifest.shape # "ok" =>
        /\ pc \in {"new_probe", "cu_kill", "cu_down", "new_parse", "failed"}
        /\ Issued("build") = {}
        /\ Issued("up") = {}
        /\ ~polled
        /\ handle = "none"
        /\ pc = "failed" => Panicking
        /\ panic.kind = "parse" =>
              /\ [i \in DOMAIN trace |-> trace[i].ev] = << "probe", "kill", "down", "parse" >>
              /\ \A i \in 1..3 : trace[i].ok

\* C13 witness: new has panicked on the yaml without `services`.
C13_Witness ==
    /\ manifest.shape = "no_services"
    /\ panic.kind = "parse"
    /\ pc = "failed"
    /\ Issued("down") # {}

\* The step is a successful `logs <service>` read of line 198.
ReadStep == pc = "w_logs" /\ failures' = failures /\ (pc' # pc \/ idx' # idx)

\* The read is the last one of its round and finds its service ready.
LastReadReady ==
    /\ ReadStep
    /\ idx = Len(waiting)
    /\ PatternCount(log[services[waiting[idx]].name]) > services[waiting[idx]].logs_seen

\* C14: a poll round is all-or-nothing.  The last read of a round is reached
\* only with every earlier service read as ready; if it is ready too, every
\* service waited for gets logs_seen + 1, no other service changes, and the
\* wait returns; every other step of a wait, a panic included, changes no
\* logs_seen.
C14_RoundAllOrNothing ==
    [][ /\ pc = "w_logs" =>
              \A j \in 1..(idx - 1) :
                  PatternCount(log[services[waiting[j]].name]) > services[waiting[j]].logs_seen
        /\ LastReadReady =>
              /\ pc' = "w_return"
              /\ services' = [i \in DOMAIN services |->
                                 IF i \in Range(waiting)
                                 THEN [services[i] EXCEPT !.logs_seen = @ + 1]
                                 ELSE services[i]]
        /\ (pc \in WaitPcs \cup {"w_help", "w_report", "w_return"} /\ ~LastReadReady) =>
              /\ services' = services
              /\ pc' # "w_return" ]_vars

\* C14 witness: a round over two services has marked both of them.
C14_Witness ==
    /\ pc = "w_return"
    /\ Len(waiting) = 2
    /\ \A i \in DOMAIN services : services[i].logs_seen = 1 /\ log[services[i].name] >= 1

\* C15: the timeout report is entered only from the check of line 230, with
\* the elapsed time strictly above the largest timeout of the services
\* waited for; that check is reached only through the round's `logs` of
\* line 213, which follows a read that found a service not ready; and the
\* timeout panic is raised only out of the report and names that maximum.
C15_TimeoutOnlyAfterMax ==
    [][ /\ pc \in {"w_elapsed", "w_report"} /\ pc' = "w_report" => elapsed > MaxOwnTimeout
        /\ (pc' = "w_report" /\ pc # "w_report") => pc = "w_elapsed"
        /\ (pc' = "w_elapsed" /\ pc # "w_elapsed") => pc \in {"w_all_logs", "w_ps"}
        /\ (pc' = "w_ps" /\ pc # "w_ps") => pc = "w_all_logs"
        /\ (pc' = "w_all_logs" /\ pc # "w_all_logs") =>
              /\ pc = "w_logs"
              /\ PatternCount(log[services[waiting[idx]].name])
                     <= services[waiting[idx]].logs_seen
        /\ (panic'.kind = "timeout" /\ panic.kind # "timeout") =>
              /\ pc = "w_report"
              /\ idx = Len(waiting)
              /\ elapsed > MaxOwnTimeout
              /\ panic'.timeout = MaxOwnTimeout ]_vars

\* C15 witness: the wait for two services with different timeouts reports
\* at the first tick after the larger one.
C15_Witness ==
    /\ pc = "w_report"
    /\ Len(waiting) = 2
    /\ \E i, j \in DOMAIN services : services[i].timeout < services[j].timeout
    /\ elapsed = MaxOwnTimeout + 1

\* C16 (as claimed): when the timeout panic is raised, every service of the
\* report whose pattern count does not exceed its logs_seen is listed as
\* Missing, in new's wait and in the wait of start_service.
C16_NotReadyIsMissing ==
    (/\ panic.kind = "timeout"
     /\ \/ handle = "none" /\ pc = "failed"
        \/ handle = "dropping" /\ pc = "cu_kill") =>
        \A i \in DOMAIN panic.results :
            LET s == panic.results[i].service IN
            PatternCount(log[s]) <= LogsSeenOf(s) => panic.results[i].found = "Missing"

\* C17 (as claimed): the wait of start_service does not depend on the other
\* services: it never panics on account of containers that are down only
\* because stop_service or kill_service took them down.
C17_StartIgnoresStoppedServices ==
    panic.kind = "container_failed" => ~(panic.containers \subseteq stopped)

\* C18: a round whose last read finds every service ready returns without a
\* panic, whatever the containers' statuses and the elapsed time; the status
\* checks are entered only after a read that found a service not ready, and
\* the check of the timeout only after all three status checks, or, without
\* the --status flag, right after the round's `logs`.
C18_ReadinessFirst ==
    [][ /\ LastReadReady => (pc' = "w_return" /\ panic' = panic /\ handle' = handle)
        /\ (pc = "w_logs" /\ pc' \notin {"w_logs", "w_return"} /\ failures' = failures) =>
              /\ pc' = "w_all_logs"
              /\ ~(PatternCount(log[services[waiting[idx]].name])
                      > services[waiting[idx]].logs_seen)
        /\ (pc' = "w_ps" /\ pc # "w_ps") => (pc = "w_all_logs" /\ can_use_status_flag)
        /\ (pc' = "w_elapsed" /\ pc # "w_elapsed") =>
              IF can_use_status_flag
              THEN pc = "w_ps" /\ idx = Len(FailStates) /\ PsListing(FailStates[idx]) = {}
              ELSE pc = "w_all_logs" ]_vars

\* C18 witness: a wait has succeeded after its timeout and with a container
\* in a failure state, on a runtime where the status checks are in use.
C18_Witness ==
    /\ pc = "w_return"
    /\ can_use_status_flag
    /\ elapsed > MaxOwnTimeout
    /\ \E s \in ServiceNames : container[s] \in FailStateSet

\* The test thread is inside wait_for_logs.
InWait == pc \in WaitPcs \cup {"w_help", "w_report"}

\* The test thread is inside the poll loop of lines 195-256.
InLoop == pc \in WaitPcs \cup {"w_report"}

\* C19 (as claimed): the poll loop, once entered, ends with one of three
\* outcomes: success, the fail-fast panic or the timeout panic.
C19_WaitEndsThreeWays ==
    InLoop ~> (pc = "w_return" \/ panic.kind \in {"container_failed", "timeout"})

\* C19 (amended): every wait over at least one service ends, and with one of
\* four outcomes that exclude each other: success, the fail-fast panic, the
\* timeout panic, or the panic of a command that returned an error, the
\* last one only when a command did return an error.
C19_WaitTerminates ==
    /\ (InWait /\ waiting # <<>>) ~>
           (pc = "w_return" \/ panic.kind \in {"container_failed", "timeout", "command_failed"})
    /\ [](pc = "w_return" => ~Panicking)
    /\ [](InWait => ~Panicking)
    /\ [](panic.kind = "command_failed" => failures > 0)

\* C19 witness: a wait for a service whose pattern never appeared has ended
\* in the timeout panic.
C19_Witness ==
    /\ panic.kind = "timeout"
    /\ \E i \in DOMAIN panic.results : panic.results[i].found = "Missing"
    /\ \A s \in ServiceNames : log[s] = 0 \/ handle = "dropped"

\* C20: while the environment of the handle exists (its logs are removed
\* only by the `down -v` of the drop), no logs_seen is above the number of
\* pattern occurrences in its service's log, and during a round the
\* services already read as ready still are.
C20_LogsSeenWithinLog ==
    handle # "dropped" =>
        /\ \A i \in DOMAIN services :
              services[i].logs_seen <= PatternCount(log[services[i].name])
        /\ pc = "w_logs" =>
              \A j \in 1..(idx - 1) :
                  services[waiting[j]].logs_seen < PatternCount(log[services[waiting[j]].name])

\* C20 witness: a round over two services has marked both, one of them with
\* a log that grew past the occurrence consumed, the other with no more
\* than that occurrence.
C20_Witness ==
    /\ pc = "w_return"
    /\ Len(waiting) = 2
    /\ \E i, j \in DOMAIN services :
          /\ PatternCount(log[services[i].name]) > services[i].logs_seen
          /\ PatternCount(log[services[j].name]) = services[j].logs_seen

====
